---- MODULE Spec2Model ----
(***************************************************************************)
(* cfb: a per-file build/run orchestrator.                                 *)
(*                                                                         *)
(* Three specifications over one set of variables:                         *)
(*   Spec      main(): load_config, create the output directory, then      *)
(*             Config::run / Config::build with every run_command call as  *)
(*             one step;                                                   *)
(*   ExecSpec  the inside of one run_command call: the executor, the child *)
(*             and the three pipes between them, one byte per step;        *)
(*   CacheSpec is_output_up_to_date applied to every pair of file states.  *)
(***************************************************************************)
EXTENDS Integers, Sequences, FiniteSets, TLC

VARIABLES
    \* ---- the environment of main() ----
    cfgFiles,     \* cfb.toml of each ancestor directory, nearest first
    fs,           \* path -> file state (sources and artifacts)
    clock,        \* the filesystem's current time
    outDir,       \* does cfb-out exist
    \* ---- one invocation ----
    pc,           \* position in main / Config::run / LanguageConfig::build
    req,          \* the request: entry point, source file, --stdin
    configs,      \* the Config load_config returned
    output_file,  \* cfb-out/<file_stem>
    commands,     \* formatted compile commands not yet executed
    execLog,      \* every run_command call of this invocation, in order
    buildState,   \* Unbuilt / Skipped / Compiling / Compiled / Failed
    result,       \* what the invocation returned
    ownStdout,    \* what this process wrote to its own standard output
    ownStderr,    \* what this process wrote to its own standard error
    fsAtStart,    \* the filesystem when the invocation began
    prev,         \* the previous invocation, while its source is as it was
    again,        \* how the previous invocation of the same source ended
    producer,     \* artifact path -> the source whose command last wrote it
    \* ---- inside one run_command call (ExecSpec) ----
    xpc,          \* executor: "copy", "drain", "done", "ioerr"
    xmode,        \* "input" (stdin = Some) or "noinput" (Command::output)
    inputLeft,    \* bytes of the external input not yet written
    stdinPipe,    \* bytes sitting in the child's stdin pipe
    stdinOpen,    \* the executor still holds child_stdin
    outPipe,      \* bytes sitting in the child's stdout pipe
    errPipe,      \* bytes sitting in the child's stderr pipe
    capOut,       \* output.stdout collected so far
    capErr,       \* output.stderr collected so far
    childOp,      \* the system call the child is in
    childSteps,   \* system calls the child has made
    childOut,     \* everything the child wrote to stdout
    childErr,     \* everything the child wrote to stderr
    childEOF,     \* the child has read end-of-input
    arrival,      \* the collected bytes in the order they were read
    xstatus,      \* the child's exit status
    xresult,      \* what run_command returned
    \* ---- is_output_up_to_date applied (CacheSpec) ----
    cSource, cOutput, cpc, cResult

mainVars == <<cfgFiles, fs, clock, outDir, pc, req, configs, output_file,
              commands, execLog, buildState, result, ownStdout, ownStderr,
              fsAtStart, prev, again, producer>>
execVars == <<xpc, xmode, inputLeft, stdinPipe, stdinOpen, outPipe, errPipe,
              capOut, capErr, childOp, childSteps, childOut, childErr,
              childEOF, arrival, xstatus, xresult>>
cacheVars == <<cSource, cOutput, cpc, cResult>>
vars == <<mainVars, execVars, cacheVars>>

(***************************************************************************)
(* Bounds.                                                                 *)
(***************************************************************************)
MaxAncestors == 2     \* directories from the working directory to the root
MaxClock == 1         \* filesystem time runs 0..MaxClock
PipeCap == 1          \* bytes a pipe buffers before a write blocks
MaxChildSteps == 4    \* system calls of one child
MaxTime == 4          \* modification times 0..MaxTime in CacheSpec

MaxInput == PipeCap + 1    \* external input of up to one byte more than a pipe

(***************************************************************************)
(* Paths.  std::path::Path: extension() is None for a name without a dot,  *)
(* file_stem() is the name without its extension.                          *)
(***************************************************************************)
NoExt == ""
MkPath(dir, stem, ext) == [dir |-> dir, stem |-> stem, ext |-> ext]
NoPath == MkPath("", "", "")

extension(p) == p.ext
file_stem(p) == p.stem

\* Path::new("cfb-out").join(source_file.file_stem())
OutputFile(source_file) == MkPath("cfb-out", file_stem(source_file), NoExt)

Sources == { MkPath("/w", "a", "c"), MkPath("/w", "a", "cpp"), MkPath("/w", "b", NoExt) }
\* the sources the environment rewrites (the others' times are never read)
EditedSources == { s \in Sources : extension(s) # NoExt }
OutputFiles == { OutputFile(s) : s \in Sources }
Paths == Sources \cup OutputFiles

(***************************************************************************)
(* File states, as std::fs sees them.                                      *)
(*   absent   no such file                                                 *)
(*   staterr  metadata() fails (e.g. no permission on a parent directory)  *)
(*   nomtime  metadata() succeeds, modified() fails                        *)
(*   file     both succeed; mtime is the modification time                 *)
(***************************************************************************)
Absent == [kind |-> "absent", mtime |-> 0]
StatErr == [kind |-> "staterr", mtime |-> 0]
NoMtime == [kind |-> "nomtime", mtime |-> 0]
FileAt(t) == [kind |-> "file", mtime |-> t]

metadata_ok(f) == f.kind \in {"nomtime", "file"}
modified_ok(f) == f.kind = "file"
\* Path::exists: "returns false on any error of metadata()"
exists(f) == metadata_ok(f)

\* A plausible slip: unwrap_or(true), so an unreadable time counts as fresh.
is_output_up_to_date_or_true(source, output) ==
    IF ~exists(output) THEN FALSE
    ELSE IF ~(metadata_ok(source) /\ modified_ok(source)) THEN TRUE
    ELSE IF ~(metadata_ok(output) /\ modified_ok(output)) THEN TRUE
    ELSE source.mtime <= output.mtime

\* A plausible slip: strict comparison, so equal timestamps count as stale.
is_output_up_to_date_strict(source, output) ==
    /\ exists(output)
    /\ metadata_ok(source) /\ modified_ok(source)
    /\ metadata_ok(output) /\ modified_ok(output)
    /\ source.mtime < output.mtime

\* A plausible slip: the exists() test inverted, so that a missing artifact
\* counts as fresh.
is_output_up_to_date_absent_fresh(source, output) ==
    IF ~exists(output) THEN TRUE
    ELSE /\ metadata_ok(source) /\ modified_ok(source)
         /\ metadata_ok(output) /\ modified_ok(output)
         /\ source.mtime <= output.mtime

\* make.rs 125-133.  The closure reads source's time first, then output's;
\* any Err becomes false through unwrap_or(false).
is_output_up_to_date(source, output) ==
    IF ~exists(output) THEN FALSE
    ELSE IF ~metadata_ok(source) THEN FALSE
    ELSE IF ~modified_ok(source) THEN FALSE
    ELSE IF ~metadata_ok(output) THEN FALSE
    ELSE IF ~modified_ok(output) THEN FALSE
    ELSE source.mtime <= output.mtime

(***************************************************************************)
(* Command templates.  A template is a sequence of tokens: literal text,   *)
(* a {name} placeholder, or malformed brace syntax.                        *)
(***************************************************************************)
Lit(s) == [k |-> "lit", s |-> s]
Arg(s) == [k |-> "arg", s |-> s]
BadSyntax == [k |-> "bad", s |-> "{"]

\* the keys format_command inserts (make.rs 40-43)
FormatArgNames == {"source", "output", "source_unquoted", "output_unquoted"}

\* A piece of a literal command: text, a shell-quoted path, or a raw path.
PLit(s) == [k |-> "lit", s |-> s, p |-> NoPath]
PQuoted(p) == [k |-> "quoted", s |-> "", p |-> p]
PRaw(p) == [k |-> "raw", s |-> "", p |-> p]

FormatToken(tok, source, output) ==
    IF tok.k = "lit" THEN PLit(tok.s)
    ELSE IF tok.s = "source" THEN PQuoted(source)
    ELSE IF tok.s = "output" THEN PQuoted(output)
    ELSE IF tok.s = "source_unquoted" THEN PRaw(source)
    ELSE PRaw(output)

TokenOk(tok) == tok.k = "lit" \/ (tok.k = "arg" /\ tok.s \in FormatArgNames)

\* make.rs 36-51: SimpleCurlyFormat.format fails on an unknown name or on
\* malformed braces; the error is replaced by "Invalid format string".
format_command(command, source, output) ==
    IF \A i \in 1..Len(command) : TokenOk(command[i])
    THEN [ok |-> TRUE,
          cmd |-> [i \in 1..Len(command) |-> FormatToken(command[i], source, output)],
          err |-> ""]
    ELSE [ok |-> FALSE, cmd |-> <<>>, err |-> "Invalid format string"]

(***************************************************************************)
(* Configuration (make.rs 16-28).  langs is a HashMap<String,              *)
(* LanguageConfig>; here a record over the extensions in use whose value   *)
(* says whether the key is present.                                        *)
(***************************************************************************)
Lang(cc, rc) == [present |-> TRUE, compile_commands |-> cc, run_command |-> rc]
NoLang == [present |-> FALSE, compile_commands |-> <<>>, run_command |-> <<>>]
Some(v) == [some |-> TRUE, v |-> v]
None == [some |-> FALSE, v |-> ""]
MkConfig(c, cpp, ds) == [langs |-> [c |-> c, cpp |-> cpp], default_stdin |-> ds]
Exts == {"c", "cpp"}

T_touch == <<Lit("touch "), Arg("output")>>
T_echo == <<Lit("echo hi")>>
T_both == <<Lit("printf 'o\\377'; echo e >&2")>>
T_exit3 == <<Lit("exit 3")>>
T_noisy == <<Lit("echo o; echo e >&2; exit 3")>>
T_kill == <<Lit("kill -9 $$")>>
T_bogus == <<Lit("cc "), Arg("bogus")>>
T_brace == <<Lit("cc "), BadSyntax>>

L_touch == Lang(<<T_touch>>, T_both)
L_empty == Lang(<<>>, T_echo)
L_exit == Lang(<<>>, T_exit3)
L_fail == Lang(<<T_touch, T_noisy, T_echo>>, T_echo)
L_kill == Lang(<<T_echo, T_kill>>, T_echo)
L_badc == Lang(<<T_touch, T_bogus>>, T_echo)
L_badr == Lang(<<T_touch>>, T_brace)

\* the cfb.toml files a directory may hold
ConfigPool == { MkConfig(L_touch, L_empty, None),
                MkConfig(L_fail, L_exit, Some("")),
                MkConfig(L_badc, L_badr, Some("in.txt")),
                MkConfig(L_kill, NoLang, Some("other.txt")) }
EmptyConfig == MkConfig(NoLang, NoLang, None)

\* what config_path holds: nothing, text toml cannot parse, or a Config
NoFile == [kind |-> "absent", cfg |-> EmptyConfig]
Malformed == [kind |-> "malformed", cfg |-> EmptyConfig]
Parsed(c) == [kind |-> "ok", cfg |-> c]
CfgFileStates == {NoFile, Malformed} \cup { Parsed(c) : c \in ConfigPool }

\* HashMap::get
LangGet(langs, ext) == IF ext \in Exts THEN langs[ext] ELSE NoLang

(***************************************************************************)
(* Errors and results (anyhow::Error).                                     *)
(***************************************************************************)
MkErr(kind, command, code, at) == [kind |-> kind, command |-> command, code |-> code, at |-> at]
NoCode == [some |-> FALSE, n |-> 0]
NoErr == MkErr("", <<>>, NoCode, 0)
Ok(out) == [state |-> "ok", out |-> out, err |-> NoErr]
Err(e) == [state |-> "err", out |-> <<>>, err |-> e]
NoResult == [state |-> "none", out |-> <<>>, err |-> NoErr]
Panicked == [state |-> "panic", out |-> <<>>, err |-> NoErr]

(***************************************************************************)
(* load_config (make.rs 53-83): walk dir.ancestors(), nearest first.       *)
(***************************************************************************)
\* A plausible slip: insert() instead of entry().or_insert(), so that a
\* farther file overrides a nearer one.
MergeLangs_insert(acc, cur) == [e \in Exts |-> IF cur[e].present THEN cur[e] ELSE acc[e]]

\* make.rs 70-72: configs.entry(language).or_insert(config)
MergeLangs(acc, cur) == [e \in Exts |-> IF acc[e].present THEN acc[e] ELSE cur[e]]

\* A plausible slip: an empty string treated like a missing value.
MergeStdin_nonempty(acc, cur) == IF cur.some /\ cur.v # "" /\ ~acc.some THEN cur ELSE acc

\* make.rs 73-75: default_stdin.get_or_insert(stdin) for a Some value
MergeStdin(acc, cur) == IF cur.some /\ ~acc.some THEN cur ELSE acc

RECURSIVE LoadFrom(_, _, _)
LoadFrom(files, i, acc) ==
    IF i > Len(files) THEN [ok |-> TRUE, cfg |-> acc, err |-> NoErr]
    ELSE IF files[i].kind = "absent" THEN LoadFrom(files, i + 1, acc)
    ELSE IF files[i].kind = "malformed"
         THEN [ok |-> FALSE, cfg |-> EmptyConfig,
               err |-> MkErr("Failed to parse config file", <<>>, NoCode, i)]
    ELSE LoadFrom(files, i + 1,
                  [langs |-> MergeLangs(acc.langs, files[i].cfg.langs),
                   default_stdin |-> MergeStdin(acc.default_stdin, files[i].cfg.default_stdin)])

\* A plausible slip: the parse error dropped (if let Ok(..) = toml::from_str)
\* instead of propagated, so that a malformed file counts as no file.
load_config_skipping(files) ==
    LoadFrom([i \in 1..Len(files) |-> IF files[i].kind = "malformed" THEN NoFile ELSE files[i]],
             1, EmptyConfig)

load_config(files) == LoadFrom(files, 1, EmptyConfig)

(***************************************************************************)
(* /bin/sh -c <command>: what the commands of the pool do.                 *)
(***************************************************************************)
Exited(n) == [exited |-> TRUE, n |-> n]
Signaled(n) == [exited |-> FALSE, n |-> n]
ShDoes(status, out, err, touch) == [status |-> status, out |-> out, err |-> err, touch |-> touch]

Sh(cmd) ==
    LET head == cmd[1].s IN
    IF head = "touch " THEN ShDoes(Exited(0), <<>>, <<>>, cmd[2].p)
    ELSE IF head = "echo hi" THEN ShDoes(Exited(0), <<104, 105, 10>>, <<>>, NoPath)
    ELSE IF head = "printf 'o\\377'; echo e >&2"
         THEN ShDoes(Exited(0), <<111, 255>>, <<101, 10>>, NoPath)
    ELSE IF head = "exit 3" THEN ShDoes(Exited(3), <<>>, <<>>, NoPath)
    ELSE IF head = "echo o; echo e >&2; exit 3"
         THEN ShDoes(Exited(3), <<111, 10>>, <<101, 10>>, NoPath)
    ELSE ShDoes(Signaled(9), <<>>, <<>>, NoPath)

(***************************************************************************)
(* run_command after the child has been waited for (make.rs 110-122).      *)
(***************************************************************************)
\* A plausible slip: the signal number passed off as an exit code.
code_raw(status) == [some |-> TRUE, n |-> status.n]

\* ExitStatus::success, ExitStatus::code
success(status) == status.exited /\ status.n = 0
code(status) == IF status.exited THEN [some |-> TRUE, n |-> status.n] ELSE NoCode

\* String::from_utf8_lossy on bytes that are ASCII or 0xFF: an invalid byte
\* becomes U+FFFD.
from_utf8_lossy(bytes) == [i \in 1..Len(bytes) |-> IF bytes[i] < 128 THEN bytes[i] ELSE 65533]

\* A plausible slip: the two streams in the other order.
CombinedOutput_swapped(stdout, stderr) == from_utf8_lossy(stderr) \o from_utf8_lossy(stdout)

\* make.rs 119-122
CombinedOutput(stdout, stderr) == from_utf8_lossy(stdout) \o from_utf8_lossy(stderr)

\* make.rs 113-117: bail!("Command failed: `{}` (exit code {:?})", ...)
CommandFailed(command, status) == MkErr("Command failed", command, code(status), 0)

\* {:?} of the Option<i32> in the message of make.rs 113-117: Some(n) or None
DebugCode(c) == IF c.some THEN [word |-> "Some", n |-> c.n] ELSE [word |-> "None", n |-> 0]

\* the text of an error as main's caller prints it: the message with the
\* command and the exit code it was formatted with
Message(e) ==
    IF e.kind = "Command failed"
    THEN [text |-> "Command failed", command |-> e.command,
          exit_code |-> DebugCode(e.code)]
    ELSE [text |-> e.kind, command |-> <<>>, exit_code |-> [word |-> "", n |-> 0]]

\* what this process writes (lines of status, or bytes passed through)
Line(what, cmd, src) == [k |-> what, cmd |-> cmd, src |-> src, bytes |-> <<>>]
Bytes(b) == [k |-> "bytes", cmd |-> <<>>, src |-> NoPath, bytes |-> b]

\* A plausible slip: the failure reported without passing the output on.
Finish_silent(command, status, stdout, stderr) ==
    IF ~success(status)
    THEN [res |-> Err(CommandFailed(command, status)), toStdout |-> <<>>, toStderr |-> <<>>]
    ELSE [res |-> Ok(CombinedOutput(stdout, stderr)), toStdout |-> <<>>, toStderr |-> <<>>]

\* make.rs 110-122 as a whole: the Result, and what is written on failure
Finish(command, status, stdout, stderr) ==
    IF ~success(status)
    THEN [res |-> Err(CommandFailed(command, status)),
          toStdout |-> <<Bytes(stdout)>>, toStderr |-> <<Bytes(stderr)>>]
    ELSE [res |-> Ok(CombinedOutput(stdout, stderr)), toStdout |-> <<>>, toStderr |-> <<>>]

(***************************************************************************)
(* Spec: main() and the calls below it.                                    *)
(***************************************************************************)
\* the file --stdin names
InputFile == "in.txt"
Request(entry, source, stdin) == [entry |-> entry, source |-> source, stdin |-> stdin]
NoRequest == Request("", NoPath, None)
\* cli.rs 12-19 (Run, BuildAll), and CodeRunner::build called by a library user
Requests ==
    { Request("run", s, i) : s \in Sources, i \in {None, Some(InputFile)} }
    \cup { Request("build", s, None) : s \in Sources }
    \cup { Request("build_all", NoPath, None) }

NoPrev == [source |-> NoPath, buildState |-> "Unbuilt"]

\* one run_command call, as execLog keeps it.  how: "nospawn" (/bin/sh could not
\* be started), "copyfail" (io::copy failed), "waited" (the status was read)
Call(phase, command, input, how) ==
    [phase |-> phase, command |-> command, input |-> input, how |-> how]
How(stdin, spawnOk, copyOk) ==
    IF ~spawnOk THEN "nospawn" ELSE IF stdin.some /\ ~copyOk THEN "copyfail" ELSE "waited"

\* make.rs 85-123 with the child run to its end.  spawnOk: /bin/sh could be
\* started; copyOk: io::copy into the child's stdin did not fail.
run_command(command, stdin, spawnOk, copyOk) ==
    LET does == Sh(command)
        status_line == <<Line("command", command, NoPath)>>
    IN  IF ~spawnOk
        THEN [res |-> Err(MkErr(IF stdin.some THEN "io" ELSE "Command execution failed",
                                <<>>, NoCode, 0)),
              toStdout |-> status_line, toStderr |-> <<>>, touch |-> NoPath]
        ELSE IF stdin.some /\ ~copyOk
        THEN [res |-> Err(MkErr("io", <<>>, NoCode, 0)),
              toStdout |-> status_line, toStderr |-> <<>>, touch |-> does.touch]
        ELSE LET fin == Finish(command, does.status, does.out, does.err)
             IN  [res |-> fin.res, toStdout |-> status_line \o fin.toStdout,
                  toStderr |-> fin.toStderr, touch |-> does.touch]

\* whose command wrote the file at p
Produced(prod, p, source) == IF p = NoPath THEN prod ELSE [prod EXCEPT ![p] = source]

\* touch <path>: create the file, or set its time to now
Touched(files, p, now) == IF p = NoPath THEN files ELSE [files EXCEPT ![p] = FileAt(now)]

\* A plausible slip: the templates before the first one that fails are kept
\* and executed, the error lost.
format_compile_commands_prefix(lang, source, output) ==
    LET fmt == [i \in 1..Len(lang.compile_commands) |->
                    format_command(lang.compile_commands[i], source, output)]
        good == { n \in 0..Len(fmt) : \A i \in 1..n : fmt[i].ok }
        last == CHOOSE n \in good : \A m \in good : m <= n
    IN  [ok |-> TRUE, cmds |-> [i \in 1..last |-> fmt[i].cmd]]

\* make.rs 136-141: collect() stops at the first template that fails
format_compile_commands(lang, source, output) ==
    LET fmt == [i \in 1..Len(lang.compile_commands) |->
                    format_command(lang.compile_commands[i], source, output)]
    IN  IF \A i \in 1..Len(fmt) : fmt[i].ok
        THEN [ok |-> TRUE, cmds |-> [i \in 1..Len(fmt) |-> fmt[i].cmd]]
        ELSE [ok |-> FALSE, cmds |-> <<>>]

InitMain ==
    /\ \E n \in 1..MaxAncestors : cfgFiles \in [1..n -> CfgFileStates]
    /\ fs = [p \in Paths |-> IF p \in Sources THEN FileAt(0) ELSE Absent]
    /\ clock = 0
    /\ outDir = FALSE
    /\ pc = "idle"
    /\ req = NoRequest
    /\ configs = EmptyConfig
    /\ output_file = NoPath
    /\ commands = <<>>
    /\ execLog = <<>>
    /\ buildState = "Unbuilt"
    /\ result = NoResult
    /\ ownStdout = <<>>
    /\ ownStderr = <<>>
    /\ fsAtStart = fs
    /\ prev = NoPrev
    /\ again = "Unbuilt"
    /\ producer = [p \in OutputFiles |-> NoPath]

\* the variables every step of an invocation leaves alone
EnvSame == UNCHANGED <<cfgFiles, clock, fsAtStart, prev, again>>

\* the invocation ends with error e
Fail(e) == /\ result' = Err(e)
           /\ pc' = "done"

\* main.rs 14-16: a command line arrives
Main ==
    /\ pc = "idle"
    /\ \E r \in Requests : req' = r
    /\ pc' = "load_config"
    /\ fsAtStart' = fs
    /\ again' = IF prev.source = req'.source THEN prev.buildState ELSE "Unbuilt"
    /\ prev' = NoPrev
    /\ UNCHANGED <<cfgFiles, fs, clock, outDir, configs, output_file, commands,
                   execLog, buildState, result, ownStdout, ownStderr, producer>>

\* main.rs 17
LoadConfig ==
    /\ pc = "load_config"
    /\ LET r == load_config(cfgFiles)
       IN  IF r.ok THEN /\ configs' = r.cfg
                        /\ pc' = "create_dir"
                        /\ UNCHANGED result
           ELSE /\ Fail(r.err)
                /\ UNCHANGED configs
    /\ EnvSame /\ UNCHANGED producer
    /\ UNCHANGED <<fs, outDir, req, output_file, commands, execLog, buildState,
                   ownStdout, ownStderr>>

\* A plausible slip: the output directory is never created.
CreateOutDir_skipped ==
    /\ pc = "create_dir"
    /\ pc' = "dispatch"
    /\ EnvSame /\ UNCHANGED producer
    /\ UNCHANGED <<fs, outDir, req, configs, output_file, commands, execLog,
                   buildState, result, ownStdout, ownStderr>>

\* main.rs 19: fs::create_dir_all("cfb-out")
CreateOutDir ==
    /\ pc = "create_dir"
    /\ outDir' = TRUE
    /\ pc' = "dispatch"
    /\ EnvSame /\ UNCHANGED producer
    /\ UNCHANGED <<fs, req, configs, output_file, commands, execLog, buildState,
                   result, ownStdout, ownStderr>>

\* main.rs 20-38: derive the artifact path and call into the runner
Dispatch ==
    /\ pc = "dispatch"
    /\ IF req.entry = "build_all"
       THEN /\ result' = Panicked
            /\ pc' = "done"
            /\ UNCHANGED output_file
       ELSE /\ output_file' = OutputFile(req.source)
            /\ pc' = IF req.entry = "run" THEN "Config_run" ELSE "Config_build"
            /\ UNCHANGED result
    /\ EnvSame /\ UNCHANGED producer
    /\ UNCHANGED <<fs, outDir, req, configs, commands, execLog, buildState,
                   ownStdout, ownStderr>>

\* A plausible slip: the extension defaulted instead of checked, so that a
\* name without one is looked up like any other.
Lookup_unchecked(source) ==
    IF ~LangGet(configs.langs, extension(source)).present
    THEN [ok |-> FALSE, lang |-> NoLang,
          err |-> MkErr("No language config for extension", <<>>, NoCode, 0)]
    ELSE [ok |-> TRUE, lang |-> LangGet(configs.langs, extension(source)), err |-> NoErr]

\* make.rs 195-201 and 178-184: the extension and its entry
Lookup(source) ==
    IF extension(source) = NoExt
    THEN [ok |-> FALSE, lang |-> NoLang,
          err |-> MkErr("No extension on source file", <<>>, NoCode, 0)]
    ELSE IF ~LangGet(configs.langs, extension(source)).present
    THEN [ok |-> FALSE, lang |-> NoLang,
          err |-> MkErr("No language config for extension", <<>>, NoCode, 0)]
    ELSE [ok |-> TRUE, lang |-> LangGet(configs.langs, extension(source)), err |-> NoErr]

\* A plausible slip: run goes straight to the run command.
RunContinuesAt_run == "Lang_run"

\* make.rs 202: after its lookup, run calls self.build(source, output)
RunContinuesAt == "Config_build"

\* make.rs 194-202: Config::run up to its call of self.build
ConfigRun ==
    /\ pc = "Config_run"
    /\ LET l == Lookup(req.source)
       IN  IF l.ok THEN pc' = RunContinuesAt /\ UNCHANGED result
           ELSE Fail(l.err)
    /\ EnvSame /\ UNCHANGED producer
    /\ UNCHANGED <<fs, outDir, req, configs, output_file, commands, execLog,
                   buildState, ownStdout, ownStderr>>

\* make.rs 177-191: Config::build up to its call of lang_config.build
ConfigBuild ==
    /\ pc = "Config_build"
    /\ LET l == Lookup(req.source)
       IN  IF l.ok THEN /\ pc' = "Lang_build"
                        /\ ownStderr' = Append(ownStderr, Line("build", <<>>, req.source))
                        /\ UNCHANGED result
           ELSE /\ Fail(l.err)
                /\ UNCHANGED ownStderr
    /\ EnvSame /\ UNCHANGED producer
    /\ UNCHANGED <<fs, outDir, req, configs, output_file, commands, execLog,
                   buildState, ownStdout>>

\* A plausible slip: the condition of the cache check inverted.
BuildSkips_inverted(source, output) == ~is_output_up_to_date(source, output)

\* make.rs 148: the condition under which build returns at once
BuildSkips(source, output) == is_output_up_to_date(source, output)

\* A plausible slip: the result of run_command dropped (no `?`).
Propagates_never(res) == FALSE

\* make.rs 154: `?` returns from build when run_command gave an Err
Propagates(res) == res.state = "err"

\* where the caller of Config::build goes on when build returned Ok(())
AfterBuild ==
    IF req.entry = "run" THEN pc' = "Lang_run" /\ UNCHANGED result
    ELSE pc' = "done" /\ result' = Ok(<<>>)

\* make.rs 147-152: the cache check, then the templates
LangBuild ==
    /\ pc = "Lang_build"
    /\ LET lang == Lookup(req.source).lang
           fmt == format_compile_commands(lang, req.source, output_file)
       IN  IF BuildSkips(fs[req.source], fs[output_file])
           THEN /\ ownStderr' = Append(ownStderr, Line("skip", <<>>, NoPath))
                /\ buildState' = "Skipped"
                /\ AfterBuild
                /\ UNCHANGED commands
           ELSE IF ~fmt.ok
           THEN /\ ownStderr' = Append(ownStderr, Line("format error", <<>>, NoPath))
                /\ buildState' = "Failed"
                /\ Fail(MkErr("Invalid format string", <<>>, NoCode, 0))
                /\ UNCHANGED commands
           ELSE IF fmt.cmds = <<>>
           THEN /\ buildState' = "Compiled"
                /\ AfterBuild
                /\ UNCHANGED <<commands, ownStderr>>
           ELSE /\ commands' = fmt.cmds
                /\ buildState' = "Compiling"
                /\ pc' = "compiling"
                /\ UNCHANGED <<result, ownStderr>>
    /\ EnvSame /\ UNCHANGED producer
    /\ UNCHANGED <<fs, outDir, req, configs, output_file, execLog, ownStdout>>

\* make.rs 153-156: one turn of the loop over the compile commands
CompileStep ==
    /\ pc = "compiling"
    /\ \E spawnOk \in BOOLEAN :
        LET r == run_command(Head(commands), None, spawnOk, TRUE)
        IN  /\ execLog' = Append(execLog, Call("compile", Head(commands), None, How(None, spawnOk, TRUE)))
            /\ ownStdout' = ownStdout \o r.toStdout
            /\ ownStderr' = ownStderr \o r.toStderr
            /\ fs' = Touched(fs, r.touch, clock)
            /\ producer' = Produced(producer, r.touch, req.source)
            /\ commands' = Tail(commands)
            /\ IF Propagates(r.res)
               THEN /\ buildState' = "Failed"
                    /\ result' = r.res
                    /\ pc' = "done"
               ELSE IF Tail(commands) = <<>>
               THEN /\ buildState' = "Compiled"
                    /\ AfterBuild
               ELSE /\ pc' = "compiling"
                    /\ UNCHANGED <<buildState, result>>
    /\ EnvSame
    /\ UNCHANGED <<outDir, req, configs, output_file>>

\* A plausible slip: the configuration's default_stdin used when --stdin is
\* not given.
StdinArg_default(request, cfg) ==
    IF request.stdin.some THEN request.stdin ELSE cfg.default_stdin

\* main.rs 28-33: the input handed to Config::run is the --stdin file, if any
StdinArg(request, cfg) == request.stdin

\* make.rs 203-209 and 159-167: Config::run after the build
LangRun ==
    /\ pc = "Lang_run"
    /\ LET lang == Lookup(req.source).lang
           fmt == format_command(lang.run_command, req.source, output_file)
           task == Line("run", <<>>, req.source)
       IN  IF ~fmt.ok
           THEN /\ ownStderr' = ownStderr \o <<task, Line("format error", <<>>, NoPath)>>
                /\ Fail(MkErr("Invalid format string", <<>>, NoCode, 0))
                /\ UNCHANGED <<execLog, ownStdout, fs, producer>>
           ELSE \E spawnOk \in BOOLEAN, copyOk \in BOOLEAN :
                /\ (~StdinArg(req, configs).some \/ ~spawnOk) => copyOk
                /\ LET r == run_command(fmt.cmd, StdinArg(req, configs), spawnOk, copyOk)
                   IN  /\ execLog' = Append(execLog, Call("run", fmt.cmd, StdinArg(req, configs), How(StdinArg(req, configs), spawnOk, copyOk)))
                       /\ ownStdout' = ownStdout \o r.toStdout
                       /\ ownStderr' = Append(ownStderr, task) \o r.toStderr
                       /\ fs' = Touched(fs, r.touch, clock)
                       /\ producer' = Produced(producer, r.touch, req.source)
                       /\ result' = r.res
                       /\ pc' = IF r.res.state = "ok" THEN "print" ELSE "done"
    /\ EnvSame
    /\ UNCHANGED <<outDir, req, configs, output_file, commands, buildState>>

\* main.rs 34: print!("{}", output)
PrintOutput ==
    /\ pc = "print"
    /\ ownStdout' = Append(ownStdout, [k |-> "output", cmd |-> <<>>, src |-> NoPath,
                                        bytes |-> result.out])
    /\ pc' = "done"
    /\ EnvSame /\ UNCHANGED producer
    /\ UNCHANGED <<fs, outDir, req, configs, output_file, commands, execLog,
                   buildState, result, ownStderr>>

\* the process exits; the caller may start another one
Return ==
    /\ pc = "done"
    /\ pc' = "idle"
    /\ prev' = [source |-> req.source, buildState |-> buildState]
    /\ again' = "Unbuilt"
    /\ fsAtStart' = fs
    /\ req' = NoRequest
    /\ configs' = EmptyConfig
    /\ output_file' = NoPath
    /\ commands' = <<>>
    /\ execLog' = <<>>
    /\ buildState' = "Unbuilt"
    /\ result' = NoResult
    /\ ownStdout' = <<>>
    /\ ownStderr' = <<>>
    /\ UNCHANGED <<cfgFiles, fs, clock, outDir, producer>>

\* between invocations: time passes
Tick ==
    /\ pc = "idle"
    /\ clock < MaxClock
    /\ clock' = clock + 1
    /\ UNCHANGED <<cfgFiles, fs, outDir, pc, req, configs, output_file, commands,
                   execLog, buildState, result, ownStdout, ownStderr, fsAtStart,
                   prev, again, producer>>

\* between invocations: the user saves a source file
EditSource ==
    /\ pc = "idle"
    /\ \E s \in EditedSources :
        /\ fs' = [fs EXCEPT ![s] = FileAt(clock)]
        /\ prev' = IF prev.source = s THEN NoPrev ELSE prev
    /\ fsAtStart' = fs'
    /\ UNCHANGED <<cfgFiles, clock, outDir, pc, req, configs, output_file, commands,
                   execLog, buildState, result, ownStdout, ownStderr, again, producer>>

InitExecIdle ==
    /\ xpc = "off" /\ xmode = "noinput" /\ inputLeft = 0 /\ stdinPipe = 0
    /\ stdinOpen = FALSE /\ outPipe = <<>> /\ errPipe = <<>> /\ capOut = <<>>
    /\ capErr = <<>> /\ childOp = "off" /\ childSteps = 0 /\ childOut = <<>>
    /\ childErr = <<>> /\ childEOF = FALSE /\ arrival = <<>>
    /\ xstatus = Exited(0) /\ xresult = NoResult

InitCacheIdle ==
    /\ cSource = Absent /\ cOutput = Absent /\ cpc = "off" /\ cResult = FALSE

Init == InitMain /\ InitExecIdle /\ InitCacheIdle

Next ==
    \/ (Main /\ UNCHANGED <<execVars, cacheVars>>)
    \/ (LoadConfig /\ UNCHANGED <<execVars, cacheVars>>)
    \/ (CreateOutDir /\ UNCHANGED <<execVars, cacheVars>>)
    \/ (Dispatch /\ UNCHANGED <<execVars, cacheVars>>)
    \/ (ConfigRun /\ UNCHANGED <<execVars, cacheVars>>)
    \/ (ConfigBuild /\ UNCHANGED <<execVars, cacheVars>>)
    \/ (LangBuild /\ UNCHANGED <<execVars, cacheVars>>)
    \/ (CompileStep /\ UNCHANGED <<execVars, cacheVars>>)
    \/ (LangRun /\ UNCHANGED <<execVars, cacheVars>>)
    \/ (PrintOutput /\ UNCHANGED <<execVars, cacheVars>>)
    \/ (Return /\ UNCHANGED <<execVars, cacheVars>>)
    \/ (Tick /\ UNCHANGED <<execVars, cacheVars>>)
    \/ (EditSource /\ UNCHANGED <<execVars, cacheVars>>)

Spec == Init /\ [][Next]_vars

(***************************************************************************)
(* What the properties below read off a state of Spec.                     *)
(***************************************************************************)
CompileCalls == SelectSeq(execLog, LAMBDA c : c.phase = "compile")
RunCalls == SelectSeq(execLog, LAMBDA c : c.phase = "run")
TheLang == Lookup(req.source).lang
TheCommands == format_compile_commands(TheLang, req.source, output_file)
\* a call whose child was waited for and did not exit with status zero
ExitedNonzero(c) == c.how = "waited" /\ ~success(Sh(c.command).status)
CallFailed(c) == c.how # "waited" \/ ExitedNonzero(c)
SkipEmitted == \E i \in 1..Len(ownStderr) : ownStderr[i].k = "skip"
BuildEnded == buildState \in {"Skipped", "Compiled", "Failed"}
\* build returned Ok(()) to its caller
BuildReturnedOk ==
    \/ pc \in {"Lang_run", "print"}
    \/ pc = "done" /\ req.entry = "build" /\ result = Ok(<<>>)
    \/ pc = "done" /\ req.entry = "run" /\ (RunCalls # <<>> \/ result.err.kind = "Invalid format string")
\* the cache's answer for this invocation
UpToDateAtStart == is_output_up_to_date(fsAtStart[req.source], fsAtStart[output_file])
\* the calls made are the first commands of cmds, in order, with no input
IsPrefixOf(calls, cmds) ==
    /\ Len(calls) <= Len(cmds)
    /\ \A k \in 1..Len(calls) : calls[k].command = cmds[k] /\ ~calls[k].input.some

\* C2, the skipped half: the cache says up to date => skip status, success, no
\* compile command, artifact as it was.
C2_SkipHalf ==
    (BuildEnded /\ UpToDateAtStart) =>
        /\ buildState = "Skipped"
        /\ SkipEmitted
        /\ BuildReturnedOk
        /\ CompileCalls = <<>>
        /\ (RunCalls = <<>> => fs = fsAtStart)

\* C2 as stated: when the cache check is true build succeeds with the skip
\* status and no compile command; when it is false every compile command of
\* the entry is submitted for execution (taken at its weakest: of
\* an entry whose templates all format, with every process started).
C2_AsStated ==
    /\ C2_SkipHalf
    /\ (/\ BuildEnded /\ ~UpToDateAtStart /\ TheCommands.ok
        /\ \A k \in 1..Len(CompileCalls) : CompileCalls[k].how = "waited") =>
            Len(CompileCalls) = Len(TheLang.compile_commands)

\* C2 (amended): when the cache check is true build succeeds with the skip
\* status, no compile command and the artifact unchanged; when it is false no
\* skip status is emitted and, if every compile template formats, the compile
\* commands are submitted in order up to and including the first that fails
\* (all of them when none fails); if a template does not format, none is.
C2_SkipOrCompile ==
    /\ C2_SkipHalf
    /\ (BuildEnded /\ ~UpToDateAtStart) =>
            /\ buildState # "Skipped"
            /\ ~SkipEmitted
            /\ IF TheCommands.ok
               THEN /\ IsPrefixOf(CompileCalls, TheCommands.cmds)
                    /\ \A k \in 1..Len(CompileCalls) :
                            CallFailed(CompileCalls[k]) <=> (k = Len(CompileCalls) /\ buildState = "Failed")
                    /\ buildState = "Compiled" => Len(CompileCalls) = Len(TheCommands.cmds)
               ELSE CompileCalls = <<>> /\ buildState = "Failed"

\* C2 witness: both halves happened, a build skipped after an earlier one that
\* ran its compile command.
C2_Witness ==
    /\ buildState = "Skipped" /\ again = "Compiled" /\ SkipEmitted
    /\ TheLang = L_touch /\ pc = "Lang_run"

\* C3: compile commands run in configured order, each at most once, with no
\* input; a command that exits nonzero is the last call of the invocation and
\* build returns its error unchanged.
C3_InOrderAbortOnFailure ==
    /\ CompileCalls # <<>> => TheCommands.ok /\ IsPrefixOf(CompileCalls, TheCommands.cmds)
    /\ \A k \in 1..Len(CompileCalls) :
          ExitedNonzero(CompileCalls[k]) =>
              /\ k = Len(execLog)
              /\ buildState = "Failed"
              /\ pc = "done"
              /\ result = Err(CommandFailed(CompileCalls[k].command,
                                            Sh(CompileCalls[k].command).status))

\* C3 witness: the second of three compile commands exited nonzero.
C3_Witness ==
    /\ TheLang = L_fail /\ Len(CompileCalls) = 2 /\ ExitedNonzero(CompileCalls[2])
    /\ pc = "done"

\* C4: run executes the run command exactly once, after Build ended Skipped
\* or Compiled; when Build fails (a compile command or a template) the run
\* command is never executed and that failure is what the caller gets.
C4_BuildThenRun ==
    /\ RunCalls # <<>> =>
          /\ Len(RunCalls) = 1
          /\ execLog[Len(execLog)].phase = "run"
          /\ buildState \in {"Skipped", "Compiled"}
          /\ req.entry = "run"
    /\ (buildState = "Failed" \/ \E k \in 1..Len(CompileCalls) : CallFailed(CompileCalls[k])) =>
          /\ RunCalls = <<>>
          /\ buildState = "Failed"
          /\ pc = "done"
          /\ result.state = "err"
          /\ result.err.kind \in {"Command failed", "Command execution failed",
                                  "Invalid format string"}
    /\ (pc = "done" /\ req.entry = "run") =>
          /\ Len(RunCalls) = 1 <=>
                /\ buildState \in {"Skipped", "Compiled"}
                /\ format_command(TheLang.run_command, req.source, output_file).ok
          /\ RunCalls = <<>> => result.state = "err"

\* C4 witness: a run whose build compiled and whose run command then ran.
C4_Witness ==
    /\ pc = "done" /\ req.entry = "run" /\ buildState = "Compiled"
    /\ Len(CompileCalls) >= 1 /\ Len(RunCalls) = 1 /\ result.state = "ok"

\* an entry whose compile commands all format, all exit zero, and create the
\* artifact (as compile_commands = ["touch {output}"] does)
CreatesArtifact(lang) ==
    LET f == format_compile_commands(lang, req.source, output_file)
    IN  /\ lang.present /\ f.ok
        /\ \A k \in 1..Len(f.cmds) : success(Sh(f.cmds[k]).status)
        /\ \E k \in 1..Len(f.cmds) : Sh(f.cmds[k]).touch = output_file

\* C6: with an entry whose compile commands create the artifact, a build that
\* finds no artifact runs the compile commands; the next build of the same,
\* unmodified source emits the skip status and runs none; a build that finds
\* the source newer than the artifact runs them again.
C6_SecondBuildSkips ==
    (BuildEnded /\ CreatesArtifact(TheLang)) =>
        /\ ~exists(fsAtStart[output_file]) =>
                buildState # "Skipped" /\ ~SkipEmitted /\ CompileCalls # <<>>
        /\ again \in {"Compiled", "Skipped"} =>
                buildState = "Skipped" /\ SkipEmitted /\ CompileCalls = <<>>
        /\ (exists(fsAtStart[output_file])
              /\ fsAtStart[req.source].mtime > fsAtStart[output_file].mtime) =>
                buildState # "Skipped" /\ ~SkipEmitted /\ CompileCalls # <<>>

\* C6 witness: the second build of an unmodified source, skipped, after a first
\* one that ran touch {output}.
C6_Witness ==
    /\ TheLang = L_touch /\ again = "Compiled" /\ buildState = "Skipped"
    /\ req.entry = "build" /\ pc = "done" /\ CompileCalls = <<>>

\* the configuration was loaded (load_config returned Ok)
ConfigLoaded ==
    /\ pc \notin {"idle", "load_config"}
    /\ result.err.kind # "Failed to parse config file"
\* the directories, nearest first, whose file defines extension e
Defines(e) == { i \in 1..Len(cfgFiles) : cfgFiles[i].kind = "ok" /\ cfgFiles[i].cfg.langs[e].present }
Nearest(S) == CHOOSE i \in S : \A j \in S : i <= j

\* C7: the resolved entry of an extension is the entry of the nearest file
\* that defines it, and there is none when no file defines it.
C7_NearestWins ==
    ConfigLoaded =>
        \A e \in Exts :
            IF Defines(e) = {} THEN ~configs.langs[e].present
            ELSE configs.langs[e] = cfgFiles[Nearest(Defines(e))].cfg.langs[e]

\* C7 witness: two files define the same extension differently, and the
\* configuration is loaded.
C7_Witness ==
    /\ ConfigLoaded /\ Len(cfgFiles) >= 2
    /\ \E e \in Exts : /\ Cardinality(Defines(e)) >= 2
                       /\ cfgFiles[1].cfg.langs[e] # cfgFiles[2].cfg.langs[e]
    /\ \E e \in Exts : Cardinality(Defines(e)) = 1 /\ configs.langs[e].present

\* C8: after a command exited nonzero, its stdout and stderr have been written
\* to this process's stdout and stderr, and the invocation's result is the
\* error with the literal command and the exit code, with no output string.
C8_FailureFlushesThenErrs ==
    \A k \in 1..Len(execLog) :
        ExitedNonzero(execLog[k]) =>
            LET c == execLog[k].command
                does == Sh(c)
            IN  /\ k = Len(execLog)
                /\ pc = "done"
                /\ result.state = "err" /\ result.out = <<>>
                /\ result.err.kind = "Command failed"
                /\ result.err.command = c
                /\ result.err.code = code(does.status)
                /\ (does.status = Exited(3) => result.err.code = [some |-> TRUE, n |-> 3])
                /\ Len(ownStdout) >= 2
                /\ ownStdout[Len(ownStdout) - 1] = Line("command", c, NoPath)
                /\ ownStdout[Len(ownStdout)] = Bytes(does.out)
                /\ ownStderr # <<>>
                /\ ownStderr[Len(ownStderr)] = Bytes(does.err)

\* C8 witness: a failing command that had written to both streams.
C8_Witness ==
    /\ pc = "done" /\ execLog # <<>>
    /\ ExitedNonzero(execLog[Len(execLog)])
    /\ Sh(execLog[Len(execLog)].command).out # <<>>
    /\ Sh(execLog[Len(execLog)].command).err # <<>>

\* C8 witness, Scenario C: the run command "exit 3" failed.
C8_WitnessExit3 ==
    /\ pc = "done" /\ RunCalls # <<>> /\ RunCalls[1].command = <<PLit("exit 3")>>
    /\ RunCalls[1].how = "waited"

\* past the lookup of Config::run / Config::build
PastLookup == pc \in {"Lang_build", "compiling", "Lang_run", "print"}

\* C9: a source without an extension fails with the missing-extension error,
\* a source whose extension has no entry with the no-configuration error, both
\* before any command is executed and before the cache is consulted.
C9_LookupFailsFirst ==
    /\ PastLookup => extension(req.source) # NoExt /\ LangGet(configs.langs, extension(req.source)).present
    /\ (pc = "done" /\ ConfigLoaded /\ req.entry \in {"run", "build"}) =>
          /\ extension(req.source) = NoExt =>
                /\ result.state = "err"
                /\ result.err.kind = "No extension on source file"
                /\ execLog = <<>> /\ buildState = "Unbuilt" /\ ~SkipEmitted
                /\ fs = fsAtStart
          /\ (extension(req.source) # NoExt
                /\ ~LangGet(configs.langs, extension(req.source)).present) =>
                /\ result.state = "err"
                /\ result.err.kind = "No language config for extension"
                /\ execLog = <<>> /\ buildState = "Unbuilt" /\ ~SkipEmitted
                /\ fs = fsAtStart

\* C9 witness: run of a source with no extension has failed.
C9_Witness ==
    /\ pc = "done" /\ req.entry = "run" /\ extension(req.source) = NoExt
    /\ ConfigLoaded /\ configs # EmptyConfig /\ result.state = "err"

\* C9 witness: build of a source whose extension no file configures has failed.
C9_WitnessUnknown ==
    /\ pc = "done" /\ req.entry = "build" /\ extension(req.source) = "cpp"
    /\ ConfigLoaded /\ configs.langs["c"].present /\ result.state = "err"
    /\ result.err.kind = "No language config for extension"

\* the directories, nearest first, whose cfb.toml does not parse
MalformedAt == { i \in 1..Len(cfgFiles) : cfgFiles[i].kind = "malformed" }
\* load_config has returned
LoadReturned == pc \notin {"idle", "load_config"}

\* C11: a malformed cfb.toml in any ancestor directory makes load_config fail
\* with the parse error that carries that file's path (the nearest malformed
\* one, where the walk stops), whatever the nearer well-formed files define;
\* the invocation then ends with no cache check, no command and no output
\* directory.  Directories without a file are skipped: with no malformed file
\* the load succeeds, and with no file at all the language table is empty.
C11_MalformedIsFatal ==
    LoadReturned =>
        IF MalformedAt # {}
        THEN /\ pc = "done" /\ result.state = "err"
             /\ result.err.kind = "Failed to parse config file"
             /\ result.err.at = Nearest(MalformedAt)
             /\ execLog = <<>> /\ buildState = "Unbuilt" /\ ~SkipEmitted
             /\ ~outDir /\ fs = fsAtStart
        ELSE /\ ConfigLoaded
             /\ (\A i \in 1..Len(cfgFiles) : cfgFiles[i].kind = "absent") =>
                    configs = EmptyConfig

\* C11 witness: the farthest file is malformed, the nearest one is well-formed
\* and defines every extension, and the invocation has ended in the parse
\* error naming the farthest file.
C11_Witness ==
    /\ pc = "done" /\ Len(cfgFiles) = 2 /\ req.entry = "run"
    /\ cfgFiles[1].kind = "ok" /\ \A e \in Exts : cfgFiles[1].cfg.langs[e].present
    /\ cfgFiles[2].kind = "malformed"
    /\ result.err.kind = "Failed to parse config file" /\ result.err.at = 2

\* C11 witness: no ancestor holds a file, and the load has succeeded with an
\* empty language table.
C11_WitnessNoFile ==
    /\ pc = "dispatch" /\ \A i \in 1..Len(cfgFiles) : cfgFiles[i].kind = "absent"
    /\ configs = EmptyConfig

\* the invocation has reached the runner: the cache may have been consulted
\* or a command executed
InRunner ==
    \/ pc \in {"Config_run", "Config_build", "Lang_build", "compiling", "Lang_run", "print"}
    \/ execLog # <<>> \/ buildState # "Unbuilt" \/ SkipEmitted

\* C12: in every invocation the output directory exists before the cache is
\* consulted and before any compile or run command is executed, and the step
\* that creates it, taken when it exists already, succeeds and leaves the
\* files in it as they were.
C12_OutDirFirst ==
    /\ [](InRunner => outDir)
    /\ [][(pc = "create_dir" /\ outDir) =>
              (pc' = "dispatch" /\ outDir' /\ result' = result
                 /\ \A p \in OutputFiles : fs'[p] = fs[p])]_vars

\* C12 witness: a later invocation, whose create_dir_all found the directory
\* with an artifact in it, has reached the cache check with the artifact as
\* it was.
C12_Witness ==
    /\ pc = "Lang_build" /\ outDir /\ exists(fsAtStart[output_file])
    /\ fs[output_file] = fsAtStart[output_file]

\* the directories, nearest first, whose file gives a non-empty default_stdin
GivesStdin ==
    { i \in 1..Len(cfgFiles) : /\ cfgFiles[i].kind = "ok"
                               /\ cfgFiles[i].cfg.default_stdin.some
                               /\ cfgFiles[i].cfg.default_stdin.v # "" }

\* C13: the resolved default-input template is the first non-empty value met
\* on the walk from the nearest directory to the root; nearer files that give
\* no value or an empty one do not keep a farther non-empty value from being
\* taken.
C13_FirstNonEmptyStdin ==
    (ConfigLoaded /\ GivesStdin # {}) =>
        configs.default_stdin = cfgFiles[Nearest(GivesStdin)].cfg.default_stdin

\* the directories, nearest first, whose file gives a default_stdin at all
HasStdin ==
    { i \in 1..Len(cfgFiles) : cfgFiles[i].kind = "ok" /\ cfgFiles[i].cfg.default_stdin.some }

\* C13, amended: the resolved default-input template is the first value
\* present on the walk from the nearest directory to the root, the empty
\* string included; files that give no value are passed over, and there is
\* no template when no file gives one.
C13_FirstPresentStdin ==
    ConfigLoaded =>
        IF HasStdin = {} THEN configs.default_stdin = None
        ELSE configs.default_stdin = cfgFiles[Nearest(HasStdin)].cfg.default_stdin

\* C13 witness: the nearest file gives the empty string, the next one a
\* non-empty value, and the loaded configuration holds the empty string.
C13_Witness ==
    /\ ConfigLoaded /\ Len(cfgFiles) = 2
    /\ 1 \in HasStdin /\ cfgFiles[1].cfg.default_stdin.v = ""
    /\ 2 \in GivesStdin
    /\ configs.default_stdin = Some("")

\* the templates of an entry, and those format_command rejects
Templates(lang) ==
    {lang.run_command} \cup { lang.compile_commands[i] : i \in 1..Len(lang.compile_commands) }
BadTemplates(lang) ==
    { t \in Templates(lang) : ~format_command(t, req.source, output_file).ok }

\* C14: a template with an unknown placeholder or malformed placeholder syntax
\* ends the invocation in a formatting error that names the offending
\* template, and nothing derived from that template is executed; every
\* command that is executed is fully literal, its placeholders replaced by
\* the source and output paths.
C14_FormatErrorNamesTemplate ==
    /\ (pc = "done" /\ result.err.kind = "Invalid format string") =>
          /\ BadTemplates(TheLang) # {}
          /\ result.err.command \in BadTemplates(TheLang)
    /\ \A k \in 1..Len(execLog) :
          /\ \E t \in Templates(TheLang) :
                LET f == format_command(t, req.source, output_file)
                IN  f.ok /\ f.cmd = execLog[k].command
          /\ \A j \in 1..Len(execLog[k].command) :
                execLog[k].command[j].k \in {"lit", "quoted", "raw"}

\* a run of a source whose entry has no compile commands and a run command
\* that formats and does not create the artifact, begun with no artifact
ScenarioA ==
    /\ req.entry = "run" /\ BuildEnded
    /\ TheLang.present /\ TheLang.compile_commands = <<>>
    /\ format_command(TheLang.run_command, req.source, output_file).ok
    /\ Sh(format_command(TheLang.run_command, req.source, output_file).cmd).touch = NoPath
    /\ ~exists(fsAtStart[output_file])

\* C15: with empty compile_commands and no artifact, every run, the first
\* and each repeated one, goes through a build step that succeeds with no
\* skip status and no command executed, and then executes the run command,
\* whose combined output is the result when it exits zero; the artifact is
\* still absent afterwards, so the next run is in the same case.
C15_EmptyCompileNeverSkips ==
    ScenarioA =>
        /\ buildState = "Compiled" /\ ~SkipEmitted /\ CompileCalls = <<>>
        /\ BuildReturnedOk
        /\ ~exists(fs[output_file])
        /\ pc = "done" =>
              /\ Len(execLog) = 1 /\ execLog[1].phase = "run"
              /\ execLog[1].command =
                    format_command(TheLang.run_command, req.source, output_file).cmd
              /\ (execLog[1].how = "waited" /\ success(Sh(execLog[1].command).status)) =>
                    /\ result = Ok(CombinedOutput(Sh(execLog[1].command).out,
                                                  Sh(execLog[1].command).err))
                    /\ ownStdout[Len(ownStdout)].k = "output"
                    /\ ownStdout[Len(ownStdout)].bytes = result.out

\* C15 witness: a repeated run under compile_commands = [], run_command =
\* "echo hi": the run before it went the same way, and this one has built
\* without skipping and returned the command's output.
C15_Witness ==
    /\ ScenarioA /\ TheLang = L_empty /\ again = "Compiled" /\ pc = "done"
    /\ buildState = "Compiled" /\ result = Ok(<<104, 105, 10>>)

\* the last call of the invocation was waited for and its child was killed
\* by a signal
LastCallSignaled ==
    /\ pc = "done" /\ execLog # <<>>
    /\ execLog[Len(execLog)].how = "waited"
    /\ ~Sh(execLog[Len(execLog)].command).status.exited

\* C16: when the child is terminated by a signal, run_command fails with the
\* Command failed error, which carries the literal command and shows the exit
\* code as "unknown".
C16_SignalShownAsUnknown ==
    LastCallSignaled =>
        /\ result.state = "err" /\ result.err.kind = "Command failed"
        /\ Message(result.err).command = execLog[Len(execLog)].command
        /\ Message(result.err).exit_code.word = "unknown"

\* C16, amended: when the child is terminated by a signal, run_command fails
\* with the Command failed error, which carries the literal command and
\* shows the exit code as None, the Debug form of the absent code (a child
\* that exited with status n is shown as Some(n)); the child's captured
\* output has been passed on before.
C16_SignalShownAsNone ==
    /\ LastCallSignaled =>
          /\ result.state = "err" /\ result.err.kind = "Command failed"
          /\ Message(result.err).command = execLog[Len(execLog)].command
          /\ Message(result.err).exit_code = [word |-> "None", n |-> 0]
    /\ (pc = "done" /\ execLog # <<>> /\ ExitedNonzero(execLog[Len(execLog)])
          /\ Sh(execLog[Len(execLog)].command).status.exited) =>
          Message(result.err).exit_code =
              [word |-> "Some", n |-> Sh(execLog[Len(execLog)].command).status.n]

\* C16 witness: the compile command kill -9 $$ has been waited for and the
\* invocation has ended in its Command failed error.
C16_Witness ==
    /\ LastCallSignaled /\ execLog[Len(execLog)].command = <<PLit("kill -9 $$")>>
    /\ result.err.kind = "Command failed" /\ buildState = "Failed"

\* C17: a build in which a compile command failed never leaves the cache
\* answering "up to date" for its source, also when an earlier compile
\* command of the same build had created or updated the artifact; so the next
\* build of the same unchanged source is not skipped.
C17_FailedBuildNotCached ==
    /\ (pc = "done" /\ buildState = "Failed" /\ CompileCalls # <<>>
          /\ CallFailed(CompileCalls[Len(CompileCalls)])) =>
            ~is_output_up_to_date(fs[req.source], fs[output_file])
    /\ (again = "Failed" /\ BuildEnded) => buildState # "Skipped"

\* C18: a build of a source is skipped only if the artifact at its path was
\* written by that source's own commands; two sources with the same stem and
\* different extensions never make each other's build skip.
C18_SkipOnlyOwnArtifact ==
    (BuildEnded /\ buildState = "Skipped") => producer[output_file] = req.source

\* every compile template of the entry formats; the run template formats
CompileTemplatesOk(lang) ==
    \A i \in 1..Len(lang.compile_commands) :
        format_command(lang.compile_commands[i], req.source, output_file).ok
RunTemplateOk(lang) == format_command(lang.run_command, req.source, output_file).ok

\* C19: in a build that is not skipped, a compile template that does not
\* format, wherever it stands in the list, makes the build fail with the
\* formatting error before any compile command is executed; the run
\* template is formatted only after build has returned, so its formatting
\* error ends a run whose compile commands have all been executed already,
\* and a failing compile command is reported instead of it.
C19_FormatBeforeExecute ==
    /\ (BuildEnded /\ buildState # "Skipped" /\ ~CompileTemplatesOk(TheLang)) =>
          /\ buildState = "Failed" /\ pc = "done"
          /\ result = Err(MkErr("Invalid format string", <<>>, NoCode, 0))
          /\ execLog = <<>> /\ fs = fsAtStart
    /\ (BuildEnded /\ req.entry = "run" /\ pc = "done"
          /\ CompileTemplatesOk(TheLang) /\ ~RunTemplateOk(TheLang)) =>
          /\ RunCalls = <<>>
          /\ IF buildState = "Failed"
             THEN /\ result.err.kind # "Invalid format string"
                  /\ CallFailed(CompileCalls[Len(CompileCalls)])
             ELSE /\ result = Err(MkErr("Invalid format string", <<>>, NoCode, 0))
                  /\ buildState = "Compiled" =>
                        /\ Len(CompileCalls) = Len(TheLang.compile_commands)
                        /\ \A k \in 1..Len(CompileCalls) : ~CallFailed(CompileCalls[k])

\* C19 witness: under compile_commands = ["touch {output}", "cc {bogus}"] a
\* build that was not skipped has failed on the last template, the touch
\* never executed.
C19_Witness ==
    /\ pc = "done" /\ TheLang = L_badc /\ buildState = "Failed"
    /\ RunTemplateOk(TheLang)
    /\ format_command(TheLang.compile_commands[1], req.source, output_file).ok
    /\ execLog = <<>> /\ ~exists(fs[output_file])

\* C19 witness: under a run template that does not format, the run has ended
\* in the formatting error after its compile command was executed.
C19_WitnessRun ==
    /\ pc = "done" /\ TheLang = L_badr /\ buildState = "Compiled"
    /\ Len(CompileCalls) = 1 /\ result.err.kind = "Invalid format string"

\* C20: the resolved default-input template has no part in execution: the
\* run command of a request without --stdin is executed with no external
\* input, whatever default_stdin the configuration holds, the run command of
\* a request with --stdin is fed exactly that file, and compile commands get
\* no input.
C20_DefaultStdinUnused ==
    \A k \in 1..Len(execLog) :
        IF execLog[k].phase = "run"
        THEN /\ execLog[k].input = req.stdin
             /\ ~req.stdin.some => execLog[k].how \in {"waited", "nospawn"}
        ELSE execLog[k].input = None

\* C20 witness: the configuration holds a non-empty default-input template,
\* the request names no input file, and the run command has been executed
\* with no input.
C20_Witness ==
    /\ pc = "done" /\ req.entry = "run" /\ ~req.stdin.some
    /\ configs.default_stdin.some /\ configs.default_stdin.v # ""
    /\ RunCalls # <<>> /\ RunCalls[1].input = None /\ RunCalls[1].how = "waited"

\* C20 witness: the request names an input file other than the configured
\* default, and the run command has been fed the request's file.
C20_WitnessExplicit ==
    /\ pc = "done" /\ req.stdin = Some(InputFile)
    /\ configs.default_stdin.some /\ configs.default_stdin.v # InputFile
    /\ RunCalls # <<>> /\ RunCalls[1].input = Some(InputFile)

(***************************************************************************)
(* ExecSpec: one run_command call from the spawn on (make.rs 91-122).      *)
(* The executor copies the input into the child's stdin, closes it, then   *)
(* collects stdout and stderr until both are closed and reads the status.  *)
(* The child is any program of at most MaxChildSteps system calls: read    *)
(* stdin, write a byte to stdout or stderr, exit.  A pipe holds PipeCap    *)
(* bytes; a write to a full pipe and a read from an empty open pipe block. *)
(***************************************************************************)
ByteValues == {97, 255}
Op(op, b) == [op |-> op, b |-> b]
Gone == Op("gone", 0)
ChildOps == {Op("read", 0), Op("exit", 0)}
            \cup { Op("out", b) : b \in ByteValues } \cup { Op("err", b) : b \in ByteValues }
\* what the child may do after `steps` system calls
OpsAfter(steps) == IF steps >= MaxChildSteps THEN {Op("exit", 0)} ELSE ChildOps
Statuses == {Exited(0), Exited(3), Signaled(9)}
XCommand == <<PLit("cat")>>

ChildAlive == childOp # Gone

InitExec ==
    /\ xmode \in {"input", "noinput"}
    /\ inputLeft \in 0..MaxInput
    /\ xmode = "noinput" => inputLeft = 0
    /\ xpc = IF xmode = "input" THEN "copy" ELSE "drain"
    /\ stdinOpen = (xmode = "input")
    /\ stdinPipe = 0
    /\ outPipe = <<>> /\ errPipe = <<>> /\ capOut = <<>> /\ capErr = <<>>
    /\ childOp \in ChildOps
    /\ childSteps = 0
    /\ childOut = <<>> /\ childErr = <<>> /\ childEOF = FALSE /\ arrival = <<>>
    /\ xstatus = Exited(0)
    /\ xresult = NoResult

\* make.rs 100: io::copy writes the next byte into child_stdin
CopyByte ==
    /\ xpc = "copy" /\ inputLeft > 0
    /\ ChildAlive /\ stdinPipe < PipeCap
    /\ stdinPipe' = stdinPipe + 1
    /\ inputLeft' = inputLeft - 1
    /\ UNCHANGED <<xpc, xmode, stdinOpen, outPipe, errPipe, capOut, capErr, childOp,
                   childSteps, childOut, childErr, childEOF, arrival, xstatus, xresult>>

\* make.rs 100: the write fails (EPIPE) once the child has gone; `?` returns
CopyBrokenPipe ==
    /\ xpc = "copy" /\ inputLeft > 0
    /\ ~ChildAlive
    /\ xresult' = Err(MkErr("io", <<>>, NoCode, 0))
    /\ xpc' = "done"
    /\ stdinOpen' = FALSE
    /\ UNCHANGED <<xmode, inputLeft, stdinPipe, outPipe, errPipe, capOut, capErr,
                   childOp, childSteps, childOut, childErr, childEOF, arrival, xstatus>>

\* make.rs 100-101: the input is at its end; drop(child_stdin)
CopyDone ==
    /\ xpc = "copy" /\ inputLeft = 0
    /\ stdinOpen' = FALSE
    /\ xpc' = "drain"
    /\ UNCHANGED <<xmode, inputLeft, stdinPipe, outPipe, errPipe, capOut, capErr,
                   childOp, childSteps, childOut, childErr, childEOF, arrival,
                   xstatus, xresult>>

\* make.rs 102 / 107: wait_with_output and output read both pipes as data comes
DrainOut ==
    /\ xpc = "drain" /\ outPipe # <<>>
    /\ capOut' = Append(capOut, Head(outPipe))
    /\ arrival' = Append(arrival, Head(outPipe))
    /\ outPipe' = Tail(outPipe)
    /\ UNCHANGED <<xpc, xmode, inputLeft, stdinPipe, stdinOpen, errPipe, capErr,
                   childOp, childSteps, childOut, childErr, childEOF, xstatus, xresult>>

DrainErr ==
    /\ xpc = "drain" /\ errPipe # <<>>
    /\ capErr' = Append(capErr, Head(errPipe))
    /\ arrival' = Append(arrival, Head(errPipe))
    /\ errPipe' = Tail(errPipe)
    /\ UNCHANGED <<xpc, xmode, inputLeft, stdinPipe, stdinOpen, outPipe, capOut,
                   childOp, childSteps, childOut, childErr, childEOF, xstatus, xresult>>

\* make.rs 102 / 107, then 110-122: both pipes at end-of-file, the status read
WaitAndFinish ==
    /\ xpc = "drain" /\ ~ChildAlive
    /\ outPipe = <<>> /\ errPipe = <<>>
    /\ xresult' = Finish(XCommand, xstatus, capOut, capErr).res
    /\ xpc' = "done"
    /\ UNCHANGED <<xmode, inputLeft, stdinPipe, stdinOpen, outPipe, errPipe, capOut,
                   capErr, childOp, childSteps, childOut, childErr, childEOF,
                   arrival, xstatus>>

\* the child's read(0) returns: a byte, or end-of-input once stdin is closed
ChildRead ==
    /\ childOp.op = "read"
    /\ stdinPipe > 0 \/ ~stdinOpen
    /\ IF stdinPipe > 0
       THEN stdinPipe' = stdinPipe - 1 /\ UNCHANGED childEOF
       ELSE childEOF' = TRUE /\ UNCHANGED stdinPipe
    /\ childSteps' = childSteps + 1
    /\ childOp' \in OpsAfter(childSteps')
    /\ UNCHANGED <<xpc, xmode, inputLeft, stdinOpen, outPipe, errPipe, capOut, capErr,
                   childOut, childErr, arrival, xstatus, xresult>>

\* the child's write(1) returns
ChildWriteOut ==
    /\ childOp.op = "out"
    /\ Len(outPipe) < PipeCap
    /\ outPipe' = Append(outPipe, childOp.b)
    /\ childOut' = Append(childOut, childOp.b)
    /\ childSteps' = childSteps + 1
    /\ childOp' \in OpsAfter(childSteps')
    /\ UNCHANGED <<xpc, xmode, inputLeft, stdinPipe, stdinOpen, errPipe, capOut, capErr,
                   childErr, childEOF, arrival, xstatus, xresult>>

\* the child's write(2) returns
ChildWriteErr ==
    /\ childOp.op = "err"
    /\ Len(errPipe) < PipeCap
    /\ errPipe' = Append(errPipe, childOp.b)
    /\ childErr' = Append(childErr, childOp.b)
    /\ childSteps' = childSteps + 1
    /\ childOp' \in OpsAfter(childSteps')
    /\ UNCHANGED <<xpc, xmode, inputLeft, stdinPipe, stdinOpen, outPipe, capOut, capErr,
                   childOut, childEOF, arrival, xstatus, xresult>>

\* the child exits or is killed; its ends of the pipes close
ChildExit ==
    /\ childOp.op = "exit"
    /\ xstatus' \in Statuses
    /\ childOp' = Gone
    /\ stdinPipe' = 0
    /\ UNCHANGED <<xpc, xmode, inputLeft, stdinOpen, outPipe, errPipe, capOut, capErr,
                   childSteps, childOut, childErr, childEOF, arrival, xresult>>

InitMainIdle ==
    /\ cfgFiles = <<NoFile>>
    /\ fs = [p \in Paths |-> IF p \in Sources THEN FileAt(0) ELSE Absent]
    /\ clock = 0 /\ outDir = FALSE /\ pc = "idle" /\ req = NoRequest
    /\ configs = EmptyConfig /\ output_file = NoPath /\ commands = <<>>
    /\ execLog = <<>> /\ buildState = "Unbuilt" /\ result = NoResult
    /\ ownStdout = <<>> /\ ownStderr = <<>> /\ fsAtStart = fs
    /\ prev = NoPrev /\ again = "Unbuilt"
    /\ producer = [p \in OutputFiles |-> NoPath]

ExecInit == InitMainIdle /\ InitExec /\ InitCacheIdle

ExecNext ==
    \/ (CopyByte /\ UNCHANGED <<mainVars, cacheVars>>)
    \/ (CopyBrokenPipe /\ UNCHANGED <<mainVars, cacheVars>>)
    \/ (CopyDone /\ UNCHANGED <<mainVars, cacheVars>>)
    \/ (DrainOut /\ UNCHANGED <<mainVars, cacheVars>>)
    \/ (DrainErr /\ UNCHANGED <<mainVars, cacheVars>>)
    \/ (WaitAndFinish /\ UNCHANGED <<mainVars, cacheVars>>)
    \/ (ChildRead /\ UNCHANGED <<mainVars, cacheVars>>)
    \/ (ChildWriteOut /\ UNCHANGED <<mainVars, cacheVars>>)
    \/ (ChildWriteErr /\ UNCHANGED <<mainVars, cacheVars>>)
    \/ (ChildExit /\ UNCHANGED <<mainVars, cacheVars>>)

ExecSpec == ExecInit /\ [][ExecNext]_vars

\* the executor is in a write to a full stdin pipe
ExecutorBlockedWriting ==
    xpc = "copy" /\ inputLeft > 0 /\ ChildAlive /\ stdinPipe >= PipeCap
\* the child is in a write to a full stdout or stderr pipe
ChildBlockedWriting ==
    \/ childOp.op = "out" /\ Len(outPipe) >= PipeCap
    \/ childOp.op = "err" /\ Len(errPipe) >= PipeCap

\* C1: the executor and the child are never both blocked, the executor writing
\* input into a full stdin pipe and the child writing into a full output pipe.
C1_NeverBothBlocked == ~(ExecutorBlockedWriting /\ ChildBlockedWriting)

\* the call returned after reading the child's status
Waited == xpc = "done" /\ xresult.err.kind # "io"

\* C10: a call whose child exited with status zero returns the child's whole
\* stdout followed by its whole stderr, each decoded, whatever the order in
\* which the bytes arrived, with and without external input.
C10_StdoutThenStderr ==
    Waited =>
        /\ success(xstatus) <=> xresult.state = "ok"
        /\ xresult.state = "ok" =>
              xresult.out = from_utf8_lossy(childOut) \o from_utf8_lossy(childErr)

\* C10 witness: a successful call with input whose child wrote to stderr
\* before stdout, with a byte that is not UTF-8, the bytes read in that order.
C10_Witness ==
    /\ Waited /\ xresult.state = "ok" /\ xmode = "input"
    /\ childOut # <<>> /\ childErr # <<>>
    /\ arrival = childErr \o childOut
    /\ \E i \in 1..Len(childOut) : childOut[i] = 255

(***************************************************************************)
(* CacheSpec: is_output_up_to_date applied to a source and an artifact in  *)
(* every file state.                                                       *)
(***************************************************************************)
FileStates == {Absent, StatErr, NoMtime} \cup { FileAt(t) : t \in 0..MaxTime }

InitCache ==
    /\ cSource \in FileStates
    /\ cOutput \in FileStates
    /\ cpc = "call"
    /\ cResult = FALSE

Apply ==
    /\ cpc = "call"
    /\ cResult' = is_output_up_to_date(cSource, cOutput)
    /\ cpc' = "returned"
    /\ UNCHANGED <<cSource, cOutput>>

CacheInit == InitMainIdle /\ InitExecIdle /\ InitCache
CacheNext == Apply /\ UNCHANGED <<mainVars, execVars>>
CacheSpec == CacheInit /\ [][CacheNext]_vars

TimeReadable(f) == f.kind = "file"

\* C5: is_output_up_to_date is false when output does not exist, false when
\* either modification time cannot be read, and otherwise true exactly when
\* output's time is greater than or equal to source's.
C5_UpToDate ==
    cpc = "returned" =>
        /\ cOutput.kind = "absent" => ~cResult
        /\ (~TimeReadable(cSource) \/ ~TimeReadable(cOutput)) => ~cResult
        /\ (TimeReadable(cSource) /\ TimeReadable(cOutput)) =>
                (cResult <=> cOutput.mtime >= cSource.mtime)

\* C5 witness: equal modification times, reported up to date.
C5_Witness ==
    /\ cpc = "returned" /\ TimeReadable(cSource) /\ TimeReadable(cOutput)
    /\ cSource.mtime = cOutput.mtime /\ cSource.mtime > 0 /\ cResult

====
